---------------------------- MODULE Spec2Model ----------------------------
(***************************************************************************)
(* A model of trade-lab's chart calculators:                               *)
(*   - the snapshot time-series loaders NetGEX.load_and_calculate and      *)
(*     DirectionalGammaImbalance.load_and_calculate (specification Spec);  *)
(*   - GEX.calculate_gex_by_strike and GEX.find_zero_gamma_level           *)
(*     (specification SpecGEX);                                            *)
(*   - the metric methods NetGEX._compute_net_gex_near_spot and            *)
(*     DirectionalGammaImbalance._calculate_dgi on one snapshot            *)
(*     (specification SpecMetrics);                                        *)
(*   - utils.black_scholes.bs_gamma (specification SpecBS).                *)
(*                                                                         *)
(* Strings are sequences of one-character strings, so that Python's        *)
(* code-point ordering, str.split, glob matching and strptime are computed *)
(* on the characters.  Floating-point quantities are exact rationals:      *)
(* gamma is carried in hundredths (an integer numerator over 100), and     *)
(* results that need a division are pairs <<numerator, denominator>>;      *)
(* rounding is not modelled.                                               *)
(***************************************************************************)
EXTENDS Integers, Sequences, FiniteSets, TLC

VARIABLES
    \* the loader object and its environment
    loader,         \* "NetGEX" or "DGI": the class of the loader object
    config,         \* the constructor's parameters kept on the object
    dir,            \* the names of the files in data_dir
    timestamps,     \* self.timestamps
    values,         \* self.net_gex_values / self.dgi_scores
    pc,             \* "idle", "loop" (line 111), "check" (line 136), "done"
    args,           \* the arguments of the call in progress / last call
    csv_files,      \* the local csv_files of the call
    idx,            \* position of the for loop in csv_files (next file)
    outcome,        \* how the last call ended
    warnings,       \* file names printed in warnings by the call
    reads,          \* files handed to pd.read_csv by the call
    globbed,        \* whether the call has listed the directory
    listedInOrder,  \* history: data_dir.glob returned the files in name order
    sources,        \* history: the file behind each entry of timestamps
    startLen,       \* history: Len(timestamps) when the call started
    calls,          \* number of calls made
    lastOk,         \* history: entry files of the latest call that returned
    \* the GEX object
    gexDf,          \* GEX.df after _prepare_data
    gexData,        \* the frame returned by calculate_gex_by_strike
    gexRange,       \* the (min_strike, max_strike) of that call
    zeroGamma,      \* the result of find_zero_gamma_level
    gexPc,          \* "new", "calculated", "found"
    \* a metric method applied to one snapshot
    snapshot,       \* the frame df handed to the metric method
    metric,         \* what the method returned
    metricPc,       \* "new", "computed"
    \* bs_gamma
    bsArgs,         \* the arguments s, k, t, sigma of the call
    bsGamma,        \* what bs_gamma returned
    bsPc            \* "new", "returned"

loaderVars == <<loader, config, dir, timestamps, values, pc, args, csv_files, idx,
                outcome, warnings, reads, globbed, listedInOrder, sources,
                startLen, calls, lastOk>>
gexVars == <<gexDf, gexData, gexRange, zeroGamma, gexPc>>
metricVars == <<snapshot, metric, metricPc>>
bsVars == <<bsArgs, bsGamma, bsPc>>
vars == <<loaderVars, gexVars, metricVars, bsVars>>

\* Python's None, among values that are strings.  No string has this
\* element; formatted into an f-string it stands for the text "None".
None == <<"None">>
\* An optional strike: <<>> for None, <<k>> for the number k.
NoStrike == <<>>

----------------------------------------------------------------------------
(* Bounds *)

MaxFiles == 3       \* files in data_dir
MaxCalls == 2       \* load_and_calculate calls on one loader object
MaxRows == 3        \* rows of a GEX snapshot

----------------------------------------------------------------------------
(* Strings *)

\* Python's ord() on the characters the model uses.
Ord(c) ==
    CASE c = "-" -> 45 [] c = "." -> 46
      [] c = "0" -> 48 [] c = "1" -> 49 [] c = "2" -> 50 [] c = "3" -> 51
      [] c = "4" -> 52 [] c = "5" -> 53 [] c = "6" -> 54 [] c = "7" -> 55
      [] c = "8" -> 56 [] c = "9" -> 57
      [] c = "S" -> 83 [] c = "T" -> 84 [] c = "_" -> 95
      [] c = "a" -> 97 [] c = "b" -> 98 [] c = "c" -> 99 [] c = "d" -> 100
      [] c = "e" -> 101 [] c = "n" -> 110 [] c = "o" -> 111
      [] c = "p" -> 112 [] c = "s" -> 115 [] c = "t" -> 116
      [] c = "v" -> 118 [] c = "x" -> 120

Digits == {"0", "1", "2", "3", "4", "5", "6", "7", "8", "9"}

DigitVal(c) == Ord(c) - 48

\* str < str: the first differing character decides, a proper prefix is less.
StrLess(a, b) ==
    \E i \in 1..(Len(b)) :
        /\ \A j \in 1..(i - 1) : j <= Len(a) /\ a[j] = b[j]
        /\ \/ i = Len(a) + 1
           \/ i <= Len(a) /\ Ord(a[i]) < Ord(b[i])

StartsWith(s, p) == Len(s) >= Len(p) /\ SubSeq(s, 1, Len(p)) = p

EndsWith(s, p) ==
    Len(s) >= Len(p) /\ SubSeq(s, Len(s) - Len(p) + 1, Len(s)) = p

RECURSIVE SplitFrom(_, _, _, _)
\* str.split(sep) scanning from position i, cur being the segment so far.
SplitFrom(s, sep, i, cur) ==
    IF i > Len(s) THEN <<cur>>
    ELSE IF s[i] = sep THEN <<cur>> \o SplitFrom(s, sep, i + 1, <<>>)
    ELSE SplitFrom(s, sep, i + 1, Append(cur, s[i]))

Split(s, sep) == SplitFrom(s, sep, 1, <<>>)

RECURSIVE DecValue(_)
DecValue(s) ==
    IF s = <<>> THEN 0
    ELSE 10 * DecValue(SubSeq(s, 1, Len(s) - 1)) + DigitVal(s[Len(s)])

IsDigits(s) == \A i \in 1..Len(s) : s[i] \in Digits


----------------------------------------------------------------------------
(* File names and the directory *)

Csv == <<".", "c", "s", "v">>
ExpTag == <<"_", "e", "x", "p">>
SymS == <<"S">>
SymT == <<"T">>
Exp1 == <<"1">>
Date0102 == <<"2", "0", "2", "5", "-", "0", "1", "-", "0", "2">>
Date0103 == <<"2", "0", "2", "5", "-", "0", "1", "-", "0", "3">>

FileName(symbol, expiration, rest) ==
    symbol \o ExpTag \o expiration \o <<"_">> \o rest \o Csv

\* S_exp1_2025-01-02_09-00-00.csv
F0900 == FileName(SymS, Exp1, Date0102 \o <<"_", "0", "9", "-", "0", "0", "-", "0", "0">>)
\* S_exp1_2025-01-02_09-05-00.csv
F0905 == FileName(SymS, Exp1, Date0102 \o <<"_", "0", "9", "-", "0", "5", "-", "0", "0">>)
\* S_exp1_2025-01-02_09-15-00.csv
F0915 == FileName(SymS, Exp1, Date0102 \o <<"_", "0", "9", "-", "1", "5", "-", "0", "0">>)
\* S_exp1_2025-01-02_09-30-00.csv
F0930 == FileName(SymS, Exp1, Date0102 \o <<"_", "0", "9", "-", "3", "0", "-", "0", "0">>)
\* S_exp1_2025-01-02_9-10-00.csv: the hour is not zero-padded
F910 == FileName(SymS, Exp1, Date0102 \o <<"_", "9", "-", "1", "0", "-", "0", "0">>)
\* S_exp1_2025-01-03_09-00-00.csv: another sample date
FNextDay == FileName(SymS, Exp1, Date0103 \o <<"_", "0", "9", "-", "0", "0", "-", "0", "0">>)
\* S_exp1_0-notes.csv: three segments; the name sorts before the dated ones
FShort == FileName(SymS, Exp1, <<"0", "-", "n", "o", "t", "e", "s">>)
\* S_exp1_2025-01-02_bad.csv: the time segment is no time
FBadTime == FileName(SymS, Exp1, Date0102 \o <<"_", "b", "a", "d">>)
\* S_exp1_2025-01-03_09-05-00.csv
FNextDay2 == FileName(SymS, Exp1, Date0103 \o <<"_", "0", "9", "-", "0", "5", "-", "0", "0">>)
\* T_exp1_2025-01-02_09-00-00.csv: another symbol
FOther == FileName(SymT, Exp1, Date0102 \o <<"_", "0", "9", "-", "0", "0", "-", "0", "0">>)

AllFiles == {F0900, F0905, F0915, F0930, F910, FNextDay, FNextDay2, FShort,
             FBadTime, FOther}

Directories == {d \in SUBSET AllFiles : Cardinality(d) <= MaxFiles}

\* The stem of a matched file: the name without its ".csv" suffix.
Stem(name) == SubSeq(name, 1, Len(name) - Len(Csv))

\* The pattern without the sample date.
PatternNoDate(symbol, expiration_filter, sample_date) ==
    [prefix |-> symbol \o ExpTag \o expiration_filter \o <<"_">>,
     suffix |-> Csv]

\* The glob pattern of lines 99-102, as the literal text before and after
\* its single "*".
Pattern(symbol, expiration_filter, sample_date) ==
    IF sample_date # None
    THEN [prefix |-> symbol \o ExpTag \o expiration_filter \o <<"_">>
                       \o sample_date \o <<"_">>,
          suffix |-> Csv]
    ELSE [prefix |-> symbol \o ExpTag \o expiration_filter \o <<"_">>,
          suffix |-> Csv]

\* fnmatch of a name against <prefix>*<suffix>.
GlobMatch(name, pattern) ==
    /\ Len(name) >= Len(pattern.prefix) + Len(pattern.suffix)
    /\ StartsWith(name, pattern.prefix)
    /\ EndsWith(name, pattern.suffix)

\* Path.glob(pattern) on a directory holding the files d.
Glob(d, pattern) == {f \in d : GlobMatch(f, pattern)}

\* The orders in which a directory listing can return a set of files.
Listings(S) ==
    {l \in [1..Cardinality(S) -> S] : \A i, j \in 1..Cardinality(S) :
                                          i # j => l[i] # l[j]}

\* Path < Path for the files of one directory, tabulated over the universe.
NameLess == [a \in AllFiles |-> [b \in AllFiles |-> StrLess(a, b)]]

\* csv_files taken as the directory listing returns them.
AsListed(l) == l

RECURSIVE SortedSet(_)
\* The files of S in ascending order of their names.
SortedSet(S) ==
    IF S = {} THEN <<>>
    ELSE LET least == CHOOSE a \in S : \A b \in S \ {a} : NameLess[a][b]
         IN  <<least>> \o SortedSet(S \ {least})

\* sorted(): the files of the listing in ascending order of their names.
SortedFiles(l) == SortedSet({l[i] : i \in 1..Len(l)})

----------------------------------------------------------------------------
(* datetime.strptime(f"{fetch_date}_{fetch_time}", "%Y-%m-%d_%H-%M-%S") *)

\* A one- or two-digit field with its value in lo..hi (%m, %d, %H, %M, %S).
FieldOk(f, lo, hi) ==
    /\ Len(f) \in {1, 2}
    /\ IsDigits(f)
    /\ DecValue(f) >= lo
    /\ DecValue(f) <= hi

DaysInMonth(y, m) ==
    IF m \in {4, 6, 9, 11} THEN 30
    ELSE IF m # 2 THEN 31
    ELSE IF (y % 4 = 0 /\ y % 100 # 0) \/ y % 400 = 0 THEN 29
    ELSE 28

\* [ok |-> TRUE, ts |-> <<Y, m, d, H, M, S>>], or ok = FALSE for ValueError.
ParseTimestamp(fetch_date, fetch_time) ==
    LET d == Split(fetch_date, "-")
        t == Split(fetch_time, "-")
    IN  IF /\ Len(d) = 3
           /\ Len(t) = 3
           /\ Len(d[1]) = 4
           /\ IsDigits(d[1])
           /\ FieldOk(d[2], 1, 12)
           /\ FieldOk(d[3], 1, 31)
           /\ DecValue(d[3]) <= DaysInMonth(DecValue(d[1]), DecValue(d[2]))
           /\ FieldOk(t[1], 0, 23)
           /\ FieldOk(t[2], 0, 59)
           /\ FieldOk(t[3], 0, 59)
        THEN [ok |-> TRUE,
              ts |-> <<DecValue(d[1]), DecValue(d[2]), DecValue(d[3]),
                       DecValue(t[1]), DecValue(t[2]), DecValue(t[3])>>]
        ELSE [ok |-> FALSE, ts |-> <<>>]


----------------------------------------------------------------------------
(* Snapshots: what pd.read_csv makes of a file.                            *)
(*   readable   FALSE when pd.read_csv raises (an empty or malformed file) *)
(*   columns    the columns of the frame                                   *)
(*   gammaText  the gamma column holds text, so that pandas reads it as    *)
(*              strings and arithmetic on it raises TypeError              *)
(*   rows       the rows; gamma and delta are in hundredths                *)
(***************************************************************************)

AllColumns == {"strike", "contract_type", "gamma", "open_interest", "delta",
               "underlying_price"}

Row(k, ct, g, oi, dl, px) ==
    [strike |-> k, contract_type |-> ct, gamma |-> g, open_interest |-> oi,
     delta |-> dl, underlying_price |-> px]

Frame(rows) ==
    [readable |-> TRUE, columns |-> AllColumns, gammaText |-> FALSE,
     rows |-> rows]

DfA == Frame(<<Row(90, "PUT", 2, 10, -30, 100), Row(110, "CALL", 1, 10, 40, 100)>>)
DfB == Frame(<<Row(100, "CALL", 3, 5, 50, 100), Row(105, "CALL", 2, 10, 20, 100),
               Row(95, "PUT", 1, 10, -45, 100), Row(200, "CALL", 1, 7, 16, 100)>>)
DfC == Frame(<<Row(120, "CALL", 1, 4, 25, 110), Row(100, "PUT", 3, 2, -90, 110)>>)
DfD == Frame(<<Row(95, "PUT", 2, 3, -20, 100)>>)
DfCorruptGamma == [DfA EXCEPT !.gammaText = TRUE]
DfEmpty == Frame(<<>>)
DfNoSpot == [DfA EXCEPT !.columns = AllColumns \ {"underlying_price"}]
DfUnreadable == [Frame(<<>>) EXCEPT !.readable = FALSE]

\* The content of each file of the model's universe.
ContentOf(f) ==
    CASE f = F0900 -> DfA
      [] f = F0905 -> DfD
      [] f = F0915 -> DfCorruptGamma
      [] f = F0930 -> DfB
      [] f = F910 -> DfC
      [] f = FNextDay -> DfEmpty
      [] f = FNextDay2 -> DfNoSpot
      [] f = FShort -> DfA
      [] f = FBadTime -> DfA
      [] f = FOther -> DfUnreadable

----------------------------------------------------------------------------
(* The loaders' configuration and metrics.  A metric's result is           *)
(* [raised |-> BOOLEAN, value |-> <<numerator, denominator>>].             *)
(***************************************************************************)

\* The constructors' defaults: gamma_scale, min_abs_delta and max_abs_delta
\* are in hundredths.
DefaultConfig ==
    [strike_width |-> 50, multiplier |-> 100, dealer_short |-> TRUE,
     gamma_scale |-> 1, min_abs_delta |-> 15, max_abs_delta |-> 55]

Abs(x) == IF x < 0 THEN -x ELSE x

RECURSIVE SumSeq(_)
SumSeq(xs) == IF xs = <<>> THEN 0 ELSE Head(xs) + SumSeq(Tail(xs))

\* Series.sum() of a column given as the sequence of its values.
Sum(column) == SumSeq(column)

Returned(num, den) == [raised |-> FALSE, value |-> <<num, den>>]
Raised == [raised |-> TRUE, value |-> <<0, 1>>]

\* NetGEX._compute_net_gex; the value is in units of 1/10000.
ComputeNetGex(band, columns, gammaText, spot, cfg) ==
    IF band = <<>> THEN Returned(0, 1)
    ELSE IF ~({"gamma", "open_interest"} \subseteq columns) \/ gammaText
    THEN Raised
    ELSE LET sign == IF cfg.dealer_short THEN -1 ELSE 1
             Gex(r) == sign * r.gamma * r.open_interest * (spot * spot)
                         * cfg.multiplier * cfg.gamma_scale
         IN  Returned(Sum([i \in 1..Len(band) |-> Gex(band[i])]), 10000)

\* The band without its bounds.
ComputeNetGexNearSpotExclusive(df, cfg) ==
    IF df.rows = <<>> THEN Returned(0, 1)
    ELSE IF "underlying_price" \notin df.columns THEN Returned(0, 1)
    ELSE IF "strike" \notin df.columns THEN Raised
    ELSE LET spot == df.rows[1].underlying_price
             InBand(r) == /\ r.strike > spot - cfg.strike_width
                          /\ r.strike < spot + cfg.strike_width
         IN  ComputeNetGex(SelectSeq(df.rows, InBand), df.columns,
                           df.gammaText, spot, cfg)

\* NetGEX._compute_net_gex_near_spot
ComputeNetGexNearSpot(df, cfg) ==
    IF df.rows = <<>> THEN Returned(0, 1)
    ELSE IF "underlying_price" \notin df.columns THEN Returned(0, 1)
    ELSE IF "strike" \notin df.columns THEN Raised
    ELSE LET spot == df.rows[1].underlying_price
             InBand(r) == /\ r.strike >= spot - cfg.strike_width
                          /\ r.strike <= spot + cfg.strike_width
         IN  ComputeNetGex(SelectSeq(df.rows, InBand), df.columns,
                           df.gammaText, spot, cfg)

\* np.clip(num / den, -1.0, 1.0) for den > 0
Clip(num, den) ==
    IF num > den THEN <<den, den>>
    ELSE IF num < -den THEN <<-den, den>>
    ELSE <<num, den>>

\* The delta filter without its bounds.
CalculateDgiExclusiveDelta(df, cfg) ==
    IF df.rows = <<>> \/ "underlying_price" \notin df.columns
    THEN Returned(0, 1)
    ELSE LET spot == df.rows[1].underlying_price
             InDelta(r) == /\ Abs(r.delta) > cfg.min_abs_delta
                           /\ Abs(r.delta) < cfg.max_abs_delta
             filtered == SelectSeq(df.rows, InDelta)
             Gex(r) == -(r.gamma * r.open_interest * (spot * spot))
             Above(r) == r.strike > spot
             Below(r) == r.strike < spot
             above == SelectSeq(filtered, Above)
             below == SelectSeq(filtered, Below)
             gamma_above == Sum([i \in 1..Len(above) |-> Gex(above[i])])
             gamma_below == Sum([i \in 1..Len(below) |-> Gex(below[i])])
             denom == Abs(gamma_above) + Abs(gamma_below)
         IN  IF filtered = <<>> \/ denom = 0 THEN Returned(0, 1)
             ELSE [raised |-> FALSE,
                   value |-> Clip(gamma_above - gamma_below, denom)]

\* Rows at the spot counted as rows above it.
CalculateDgiAtSpotAbove(df, cfg) ==
    IF df.rows = <<>> \/ "underlying_price" \notin df.columns
    THEN Returned(0, 1)
    ELSE LET spot == df.rows[1].underlying_price
             InDelta(r) == /\ Abs(r.delta) >= cfg.min_abs_delta
                           /\ Abs(r.delta) <= cfg.max_abs_delta
             filtered == SelectSeq(df.rows, InDelta)
             Gex(r) == -(r.gamma * r.open_interest * (spot * spot))
             Above(r) == r.strike >= spot
             Below(r) == r.strike < spot
             above == SelectSeq(filtered, Above)
             below == SelectSeq(filtered, Below)
             gamma_above == Sum([i \in 1..Len(above) |-> Gex(above[i])])
             gamma_below == Sum([i \in 1..Len(below) |-> Gex(below[i])])
             denom == Abs(gamma_above) + Abs(gamma_below)
         IN  IF filtered = <<>> \/ denom = 0 THEN Returned(0, 1)
             ELSE [raised |-> FALSE,
                   value |-> Clip(gamma_above - gamma_below, denom)]

\* DirectionalGammaImbalance._calculate_dgi
CalculateDgi(df, cfg) ==
    IF df.rows = <<>> \/ "underlying_price" \notin df.columns
    THEN Returned(0, 1)
    ELSE IF "delta" \notin df.columns THEN Raised
    ELSE LET spot == df.rows[1].underlying_price
             InDelta(r) == /\ Abs(r.delta) >= cfg.min_abs_delta
                           /\ Abs(r.delta) <= cfg.max_abs_delta
             filtered == SelectSeq(df.rows, InDelta)
             \* -gamma * open_interest * spot^2 * 0.01, in units of 1/10000
             Gex(r) == -(r.gamma * r.open_interest * (spot * spot))
             Above(r) == r.strike > spot
             Below(r) == r.strike < spot
         IN  IF filtered = <<>> THEN Returned(0, 1)
             ELSE IF ~({"gamma", "open_interest", "strike"} \subseteq df.columns)
                     \/ df.gammaText
             THEN Raised
             ELSE LET above == SelectSeq(filtered, Above)
                      below == SelectSeq(filtered, Below)
                      gamma_above ==
                          Sum([i \in 1..Len(above) |-> Gex(above[i])])
                      gamma_below ==
                          Sum([i \in 1..Len(below) |-> Gex(below[i])])
                      denom == Abs(gamma_above) + Abs(gamma_below)
                  IN  IF denom = 0 THEN Returned(0, 1)
                      ELSE [raised |-> FALSE,
                            value |-> Clip(gamma_above - gamma_below, denom)]

\* The metric the loader applies to a snapshot (lines 127 / 109).
Metric(kind, df, cfg) ==
    IF kind = "NetGEX" THEN ComputeNetGexNearSpot(df, cfg)
    ELSE CalculateDgi(df, cfg)


----------------------------------------------------------------------------
(* load_and_calculate (NetGEX.py 85-137, DirectionalGammaImbalance.py      *)
(* 67-119; the two methods differ in the metric only)                      *)
(***************************************************************************)

Symbols == {None, SymS, SymT}
ExpirationFilters == {None, Exp1}
SampleDates == {None, Date0102}

\* The check of symbol alone.
ArgsValidSymbolOnly(symbol, expiration_filter) == symbol # None

\* Lines 93-97: the checks that raise "... is required and cannot be None".
ArgsValid(symbol, expiration_filter) ==
    symbol # None /\ expiration_filter # None

\* Whether a listing is in ascending order of the names.
InNameOrder(l) == \A i, j \in 1..Len(l) : i < j => NameLess[l[i]][l[j]]

\* One iteration of the for loop on csv_file (lines 112-134):
\*   tag   "short" (line 122), "error" (lines 132-134) or "entry"
\*   read  whether pd.read_csv was called on the file
FileResult(kind, csv_file, cfg) ==
    LET parts == Split(Stem(csv_file), "_")
        parsed == ParseTimestamp(parts[3], parts[4])
        df == ContentOf(csv_file)
        m == Metric(kind, df, cfg)
    IN  IF Len(parts) < 4
        THEN [tag |-> "short", read |-> FALSE, ts |-> <<>>, value |-> <<>>]
        ELSE IF ~parsed.ok
        THEN [tag |-> "error", read |-> FALSE, ts |-> <<>>, value |-> <<>>]
        ELSE IF ~df.readable \/ m.raised
        THEN [tag |-> "error", read |-> TRUE, ts |-> <<>>, value |-> <<>>]
        ELSE [tag |-> "entry", read |-> TRUE, ts |-> parsed.ts,
              value |-> m.value]

LoaderKinds == {"NetGEX", "DGI"}
Configs == {DefaultConfig}

\* FileResult tabulated over the loaders, configurations and files of the
\* model.
FileResults ==
    [kind \in LoaderKinds |-> [cfg \in Configs |-> [f \in AllFiles |->
        FileResult(kind, f, cfg)]]]

\* Glob of the whole universe for each pattern the calls can build,
\* tabulated; the glob of a directory d is its intersection with d.
Matching ==
    [symbol \in Symbols |-> [expiration_filter \in
        ExpirationFilters |-> [sample_date \in SampleDates |->
            Glob(AllFiles, Pattern(symbol, expiration_filter, sample_date))]]]

\* The call with the series emptied on entry.
CallClearingSeries(symbol, expiration_filter, sample_date) ==
    /\ pc \in {"idle", "done"}
    /\ calls < MaxCalls
    /\ calls' = calls + 1
    /\ args' = [symbol |-> symbol, expiration_filter |-> expiration_filter,
                sample_date |-> sample_date]
    /\ warnings' = <<>>
    /\ reads' = <<>>
    /\ idx' = 1
    /\ startLen' = 0
    /\ timestamps' = <<>>
    /\ values' = <<>>
    /\ sources' = <<>>
    /\ IF ~ArgsValid(symbol, expiration_filter)
       THEN /\ outcome' = "InvalidArgument"
            /\ pc' = "done"
            /\ globbed' = FALSE
            /\ listedInOrder' = TRUE
            /\ csv_files' = <<>>
       ELSE /\ globbed' = TRUE
            /\ \E listing \in Listings(dir \cap
                       Matching[symbol][expiration_filter][sample_date]) :
                   /\ csv_files' = SortedFiles(listing)
                   /\ listedInOrder' = InNameOrder(listing)
            /\ IF csv_files' = <<>>
               THEN outcome' = "NotFound" /\ pc' = "done"
               ELSE outcome' = "running" /\ pc' = "loop"
    /\ UNCHANGED <<loader, config, dir, lastOk>>

\* Lines 85-109: the call up to the for loop.
Call(symbol, expiration_filter, sample_date) ==
    /\ pc \in {"idle", "done"}
    /\ calls < MaxCalls
    /\ calls' = calls + 1
    /\ args' = [symbol |-> symbol, expiration_filter |-> expiration_filter,
                sample_date |-> sample_date]
    /\ warnings' = <<>>
    /\ reads' = <<>>
    /\ idx' = 1
    /\ startLen' = Len(timestamps)
    /\ IF ~ArgsValid(symbol, expiration_filter)
       THEN /\ outcome' = "InvalidArgument"
            /\ pc' = "done"
            /\ globbed' = FALSE
            /\ listedInOrder' = TRUE
            /\ csv_files' = <<>>
       ELSE /\ globbed' = TRUE
            /\ \E listing \in Listings(dir \cap
                       Matching[symbol][expiration_filter][sample_date]) :
                   /\ csv_files' = SortedFiles(listing)
                   /\ listedInOrder' = InNameOrder(listing)
            /\ IF csv_files' = <<>>
               THEN outcome' = "NotFound" /\ pc' = "done"
               ELSE outcome' = "running" /\ pc' = "loop"
    /\ UNCHANGED <<loader, config, dir, timestamps, values, sources, lastOk>>

\* The loop body without its try/except: an error leaves the call.
ProcessFileNoCatch ==
    /\ pc = "loop"
    /\ LET csv_file == csv_files[idx]
           r == FileResults[loader][config][csv_file]
       IN  /\ reads' = IF r.read THEN Append(reads, csv_file) ELSE reads
           /\ IF r.tag = "entry"
              THEN /\ timestamps' = Append(timestamps, r.ts)
                   /\ values' = Append(values, r.value)
                   /\ sources' = Append(sources, csv_file)
              ELSE UNCHANGED <<timestamps, values, sources>>
           /\ IF r.tag = "error"
              THEN pc' = "done" /\ outcome' = "Exception" /\ idx' = idx
              ELSE /\ pc' = IF idx = Len(csv_files) THEN "check" ELSE "loop"
                   /\ outcome' = outcome
                   /\ idx' = idx + 1
    /\ UNCHANGED <<loader, config, dir, args, csv_files, warnings, globbed,
                   listedInOrder, startLen, calls, lastOk>>

\* The loop body with the metric of an entry taken over from the entry
\* before it in the call.
ProcessFileCarry ==
    /\ pc = "loop"
    /\ LET csv_file == csv_files[idx]
           r == FileResults[loader][config][csv_file]
       IN  /\ reads' = IF r.read THEN Append(reads, csv_file) ELSE reads
           /\ warnings' = IF r.tag = "error" THEN Append(warnings, csv_file)
                          ELSE warnings
           /\ IF r.tag = "entry"
              THEN /\ timestamps' = Append(timestamps, r.ts)
                   /\ values' = Append(values,
                                       IF Len(values) > startLen
                                       THEN values[Len(values)]
                                       ELSE r.value)
                   /\ sources' = Append(sources, csv_file)
              ELSE UNCHANGED <<timestamps, values, sources>>
    /\ idx' = idx + 1
    /\ pc' = IF idx = Len(csv_files) THEN "check" ELSE "loop"
    /\ UNCHANGED <<loader, config, dir, args, csv_files, outcome, globbed,
                   listedInOrder, startLen, calls, lastOk>>

\* The loop body without the length test of line 116: a short name fails
\* at parts[3] and gets a warning.
ProcessFileShortWarns ==
    /\ pc = "loop"
    /\ LET csv_file == csv_files[idx]
           r == FileResults[loader][config][csv_file]
       IN  /\ reads' = IF r.read THEN Append(reads, csv_file) ELSE reads
           /\ warnings' = IF r.tag \in {"error", "short"}
                          THEN Append(warnings, csv_file)
                          ELSE warnings
           /\ IF r.tag = "entry"
              THEN /\ timestamps' = Append(timestamps, r.ts)
                   /\ values' = Append(values, r.value)
                   /\ sources' = Append(sources, csv_file)
              ELSE UNCHANGED <<timestamps, values, sources>>
    /\ idx' = idx + 1
    /\ pc' = IF idx = Len(csv_files) THEN "check" ELSE "loop"
    /\ UNCHANGED <<loader, config, dir, args, csv_files, outcome, globbed,
                   listedInOrder, startLen, calls, lastOk>>

\* The loop body with an empty or price-less snapshot taken as an error.
ProcessFileEmptyFails ==
    /\ pc = "loop"
    /\ LET csv_file == csv_files[idx]
           r == FileResults[loader][config][csv_file]
           df == ContentOf(csv_file)
           degenerate == /\ r.tag = "entry"
                         /\ \/ df.rows = <<>>
                            \/ "underlying_price" \notin df.columns
       IN  /\ reads' = IF r.read THEN Append(reads, csv_file) ELSE reads
           /\ warnings' = IF r.tag = "error" \/ degenerate
                          THEN Append(warnings, csv_file)
                          ELSE warnings
           /\ IF r.tag = "entry" /\ ~degenerate
              THEN /\ timestamps' = Append(timestamps, r.ts)
                   /\ values' = Append(values, r.value)
                   /\ sources' = Append(sources, csv_file)
              ELSE UNCHANGED <<timestamps, values, sources>>
    /\ idx' = idx + 1
    /\ pc' = IF idx = Len(csv_files) THEN "check" ELSE "loop"
    /\ UNCHANGED <<loader, config, dir, args, csv_files, outcome, globbed,
                   listedInOrder, startLen, calls, lastOk>>

\* The loop body with the timestamp appended before the file is read: an
\* error in the read or in the metric leaves it without a value.
ProcessFileTimestampFirst ==
    /\ pc = "loop"
    /\ LET csv_file == csv_files[idx]
           r == FileResults[loader][config][csv_file]
           parts == Split(Stem(csv_file), "_")
       IN  /\ reads' = IF r.read THEN Append(reads, csv_file) ELSE reads
           /\ warnings' = IF r.tag = "error" THEN Append(warnings, csv_file)
                          ELSE warnings
           /\ IF r.tag = "entry"
              THEN /\ timestamps' = Append(timestamps, r.ts)
                   /\ values' = Append(values, r.value)
                   /\ sources' = Append(sources, csv_file)
              ELSE IF r.tag = "error" /\ r.read
              THEN /\ timestamps' =
                          Append(timestamps,
                                 ParseTimestamp(parts[3], parts[4]).ts)
                   /\ sources' = Append(sources, csv_file)
                   /\ values' = values
              ELSE UNCHANGED <<timestamps, values, sources>>
    /\ idx' = idx + 1
    /\ pc' = IF idx = Len(csv_files) THEN "check" ELSE "loop"
    /\ UNCHANGED <<loader, config, dir, args, csv_files, outcome, globbed,
                   listedInOrder, startLen, calls, lastOk>>

\* Lines 111-134: the loop body on csv_files[idx].
ProcessFile ==
    /\ pc = "loop"
    /\ LET csv_file == csv_files[idx]
           r == FileResults[loader][config][csv_file]
       IN  /\ reads' = IF r.read THEN Append(reads, csv_file) ELSE reads
           /\ warnings' = IF r.tag = "error" THEN Append(warnings, csv_file)
                          ELSE warnings
           /\ IF r.tag = "entry"
              THEN /\ timestamps' = Append(timestamps, r.ts)
                   /\ values' = Append(values, r.value)
                   /\ sources' = Append(sources, csv_file)
              ELSE UNCHANGED <<timestamps, values, sources>>
    /\ idx' = idx + 1
    /\ pc' = IF idx = Len(csv_files) THEN "check" ELSE "loop"
    /\ UNCHANGED <<loader, config, dir, args, csv_files, outcome, globbed,
                   listedInOrder, startLen, calls, lastOk>>

\* The files of the call that are processed without error and have at
\* least 4 filename segments.
IsUsable(f) == FileResults[loader][config][f].tag = "entry"

\* Lines 136-137: the check after the loop, and the return.
Finish ==
    /\ pc = "check"
    /\ pc' = "done"
    /\ IF timestamps = <<>>
       THEN outcome' = "NoValidData" /\ lastOk' = lastOk
       ELSE outcome' = "returned" /\ lastOk' = SelectSeq(csv_files, IsUsable)
    /\ UNCHANGED <<loader, config, dir, timestamps, values, args, csv_files,
                   idx, warnings, reads, globbed, listedInOrder, sources, startLen,
                   calls>>

LoaderInit ==
    /\ loader \in LoaderKinds
    /\ config \in Configs
    /\ dir \in Directories
    /\ timestamps = <<>>
    /\ values = <<>>
    /\ pc = "idle"
    /\ args = [symbol |-> None, expiration_filter |-> None,
               sample_date |-> None]
    /\ csv_files = <<>>
    /\ idx = 1
    /\ outcome = "none"
    /\ warnings = <<>>
    /\ reads = <<>>
    /\ globbed = FALSE
    /\ listedInOrder = TRUE
    /\ sources = <<>>
    /\ startLen = 0
    /\ calls = 0
    /\ lastOk = <<>>

\* The GEX object plays no part in the loaders' specification.
GexUnused ==
    /\ gexDf = <<>>
    /\ gexData = [raised |-> "", rows |-> <<>>]
    /\ gexRange = <<NoStrike, NoStrike>>
    /\ zeroGamma = [kind |-> "unset", num |-> 0, den |-> 1]
    /\ gexPc = "unused"

\* The pure functions play no part in the specifications of the loaders
\* and of GEX.
MetricUnused ==
    /\ snapshot = Frame(<<>>)
    /\ metric = Returned(0, 1)
    /\ metricPc = "unused"

BsUnused ==
    /\ bsArgs = <<>>
    /\ bsGamma = [kind |-> "unset", on |-> <<>>]
    /\ bsPc = "unused"

Init == LoaderInit /\ GexUnused /\ MetricUnused /\ BsUnused

Next ==
    \/ \E symbol \in Symbols, expiration_filter \in ExpirationFilters,
          sample_date \in SampleDates :
           /\ Call(symbol, expiration_filter, sample_date)
           /\ UNCHANGED <<gexVars, metricVars, bsVars>>
    \/ ProcessFile /\ UNCHANGED <<gexVars, metricVars, bsVars>>
    \/ Finish /\ UNCHANGED <<gexVars, metricVars, bsVars>>

Spec == Init /\ [][Next]_vars


----------------------------------------------------------------------------
(* GEX (GEX.py).  GEX.df is a sequence of rows; the gex column that        *)
(* _prepare_data adds is computed from the row where it is read.           *)
(***************************************************************************)

MULTIPLIER == 100

\* Lines 153-158: the gex column of _prepare_data, in hundredths.
RowGex(r) == r.gamma * r.open_interest * MULTIPLIER * r.underlying_price

\* The rows a snapshot of the model is made of.
GexRows ==
    {Row(100, "CALL", 1, 10, 50, 100), Row(100, "PUT", 2, 5, -50, 100),
     Row(100, "CALL", 1, 5, 50, 100),
     Row(110, "CALL", 1, 5, 30, 100), Row(110, "PUT", 1, 10, -70, 100),
     Row(120, "CALL", 2, 5, 10, 100), Row(120, "PUT", 1, 5, -90, 100)}

Snapshots == UNION {[1..n -> GexRows] : n \in 1..MaxRows}

StrikeBounds == {NoStrike, <<100>>, <<110>>, <<120>>}

RECURSIVE AscendingInts(_)
\* The group keys in the order groupby(sort=True) yields them.
AscendingInts(S) ==
    IF S = {} THEN <<>>
    ELSE LET least == CHOOSE a \in S : \A b \in S : a <= b
         IN  <<least>> \o AscendingInts(S \ {least})

\* Lines 171-176: groupby(["strike", "contract_type"])["gex"].sum()
\* .unstack(fill_value=0).reset_index(): one row per strike, one column per
\* contract type that occurs in the snapshot, 0 where a strike has no row of
\* a type.
GroupByStrike(df) ==
    LET strikes == AscendingInts({df[i].strike : i \in 1..Len(df)})
        GroupSum(k, ct) ==
            LET InGroup(r) == r.strike = k /\ r.contract_type = ct
                group == SelectSeq(df, InGroup)
            IN  Sum([i \in 1..Len(group) |-> RowGex(group[i])])
    IN  [columns |-> {df[i].contract_type : i \in 1..Len(df)},
         rows |-> [i \in 1..Len(strikes) |->
                      [strike |-> strikes[i],
                       CALL |-> GroupSum(strikes[i], "CALL"),
                       PUT |-> GroupSum(strikes[i], "PUT")]]]

\* The mask with exclusive bounds.
InStrikeRangeExclusive(strike, min_strike, max_strike) ==
    /\ min_strike # NoStrike => strike > min_strike[1]
    /\ max_strike # NoStrike => strike < max_strike[1]

\* Lines 179-186: the mask of the strike range.
InStrikeRange(strike, min_strike, max_strike) ==
    /\ min_strike # NoStrike => strike >= min_strike[1]
    /\ max_strike # NoStrike => strike <= max_strike[1]

\* GEX.calculate_gex_by_strike: the frame, or KeyError at line 189.
CalculateGexByStrike(df, min_strike, max_strike) ==
    LET gex_by_strike == GroupByStrike(df)
        InRange(row) == InStrikeRange(row.strike, min_strike, max_strike)
        kept == SelectSeq(gex_by_strike.rows, InRange)
    IN  IF ~({"CALL", "PUT"} \subseteq gex_by_strike.columns)
        THEN [raised |-> "KeyError", rows |-> <<>>]
        ELSE [raised |-> "",
              rows |-> [i \in 1..Len(kept) |->
                           [strike |-> kept[i].strike,
                            CALL |-> kept[i].CALL,
                            PUT |-> kept[i].PUT,
                            net_gamma |-> kept[i].CALL - kept[i].PUT]]]

Sign(x) == IF x > 0 THEN 1 ELSE IF x < 0 THEN -1 ELSE 0

\* Line 202: np.where(np.sign(net_gamma).diff() != 0)[0], as positions from
\* 1.  The first element of diff() is NaN, and NaN != 0 holds.
SignChanges(rows) ==
    {i \in 1..Len(rows) :
        i = 1 \/ Sign(rows[i].net_gamma) # Sign(rows[i - 1].net_gamma)}

\* np.interp(x, [x1, x2], [y1, y2]) as numpy computes it for two points,
\* whatever their order, as the fraction <<numerator, denominator>>.
NpInterp(x, x1, x2, y1, y2) ==
    IF x > x2 THEN <<y2, 1>>
    ELSE IF x < x1 THEN <<y1, 1>>
    ELSE IF x >= x2 THEN <<y2, 1>>
    ELSE IF x1 = x THEN <<y1, 1>>
    ELSE <<y1 * (x2 - x1) + (y2 - y1) * (x - x1), x2 - x1>>

\* GEX.find_zero_gamma_level
FindZeroGammaLevel(gex_data) ==
    LET sign_changes == SignChanges(gex_data)
        idx0 == CHOOSE i \in sign_changes : \A j \in sign_changes : i <= j
    IN  IF sign_changes = {}
        THEN [kind |-> "None", num |-> 0, den |-> 1]
        ELSE IF idx0 + 1 > Len(gex_data)
        THEN [kind |-> "IndexError", num |-> 0, den |-> 1]
        ELSE LET z == NpInterp(0, gex_data[idx0].net_gamma,
                               gex_data[idx0 + 1].net_gamma,
                               gex_data[idx0].strike,
                               gex_data[idx0 + 1].strike)
             IN  [kind |-> "value", num |-> z[1], den |-> z[2]]

\* gex_filtered = self.calculate_gex_by_strike(min_strike, max_strike)
Calculate(min_strike, max_strike) ==
    /\ gexPc = "new"
    /\ gexRange' = <<min_strike, max_strike>>
    /\ gexData' = CalculateGexByStrike(gexDf, min_strike, max_strike)
    /\ gexPc' = "calculated"
    /\ UNCHANGED <<gexDf, zeroGamma>>

\* zero_gamma_strike = self.find_zero_gamma_level(gex_filtered)
FindZero ==
    /\ gexPc = "calculated"
    /\ gexData.raised = ""
    /\ zeroGamma' = FindZeroGammaLevel(gexData.rows)
    /\ gexPc' = "found"
    /\ UNCHANGED <<gexDf, gexData, gexRange>>

GexInit ==
    /\ gexDf \in Snapshots
    /\ gexData = [raised |-> "", rows |-> <<>>]
    /\ gexRange = <<NoStrike, NoStrike>>
    /\ zeroGamma = [kind |-> "unset", num |-> 0, den |-> 1]
    /\ gexPc = "new"

\* The loader plays no part in the specification of GEX.
LoaderUnused ==
    /\ loader = "NetGEX"
    /\ config = DefaultConfig
    /\ dir = {}
    /\ timestamps = <<>>
    /\ values = <<>>
    /\ pc = "unused"
    /\ args = [symbol |-> None, expiration_filter |-> None,
               sample_date |-> None]
    /\ csv_files = <<>>
    /\ idx = 1
    /\ outcome = "none"
    /\ warnings = <<>>
    /\ reads = <<>>
    /\ globbed = FALSE
    /\ listedInOrder = TRUE
    /\ sources = <<>>
    /\ startLen = 0
    /\ calls = 0
    /\ lastOk = <<>>

InitGEX == GexInit /\ LoaderUnused /\ MetricUnused /\ BsUnused

NextGEX ==
    \/ \E min_strike \in StrikeBounds, max_strike \in StrikeBounds :
           /\ Calculate(min_strike, max_strike)
           /\ UNCHANGED <<loaderVars, metricVars, bsVars>>
    \/ FindZero /\ UNCHANGED <<loaderVars, metricVars, bsVars>>

SpecGEX == InitGEX /\ [][NextGEX]_vars


----------------------------------------------------------------------------
(* The metric methods on one snapshot (NetGEX.py 139-187,                  *)
(* DirectionalGammaImbalance.py 121-161), with the loader object's         *)
(* configuration drawn from several settings.                              *)
(***************************************************************************)

\* gamma_utils.row_gross_gex for one row, in units of 1/10000.
RowGrossGex(r, spot, multiplier, gamma_scale) ==
    r.gamma * r.open_interest * (spot * spot) * multiplier * gamma_scale

\* gamma_utils.apply_dealer_sign
ApplyDealerSign(value, dealer_short) ==
    (IF dealer_short THEN -1 ELSE 1) * value

\* The rows the snapshots of this specification are made of.  Spot is 100
\* but for the last row; strikes lie on, inside and outside the bands of
\* width 5 and 10, |delta| on, inside and outside [0.15, 0.55]; one row has
\* a negative gamma, which cancels that of another row at its strike.
MetricRows ==
    {Row(100, "CALL", 3, 5, 50, 100), Row(95, "PUT", 1, 10, -15, 100),
     Row(105, "CALL", 2, 10, 55, 100), Row(110, "CALL", 1, 4, 30, 100),
     Row(90, "PUT", 2, 3, -60, 100), Row(120, "CALL", 1, 7, 10, 100),
     Row(105, "CALL", 0, 5, 40, 100), Row(95, "PUT", -1, 10, -40, 100),
     Row(94, "PUT", 1, 5, -20, 105)}

MetricSnapshots == {Frame(rows) : rows \in UNION {[1..n -> MetricRows] : n \in 0..MaxRows}}

\* The settings of the constructors' parameters.
MetricConfigs ==
    {DefaultConfig,
     [DefaultConfig EXCEPT !.strike_width = 5],
     [DefaultConfig EXCEPT !.strike_width = 10, !.dealer_short = FALSE],
     [DefaultConfig EXCEPT !.strike_width = 5, !.gamma_scale = 2,
                           !.multiplier = 50],
     [DefaultConfig EXCEPT !.min_abs_delta = 30],
     [DefaultConfig EXCEPT !.min_abs_delta = 20, !.max_abs_delta = 40]}

\* self._compute_net_gex_near_spot(df) / self._calculate_dgi(df)
ComputeMetric ==
    /\ metricPc = "new"
    /\ metric' = Metric(loader, snapshot, config)
    /\ metricPc' = "computed"
    /\ UNCHANGED <<loaderVars, gexVars, snapshot, bsVars>>

MetricInit ==
    /\ snapshot \in MetricSnapshots
    /\ metric = Returned(0, 1)
    /\ metricPc = "new"

\* The loader object of this specification: its class and configuration
\* vary, its series is not used.
MetricLoader ==
    /\ loader \in LoaderKinds
    /\ config \in MetricConfigs
    /\ dir = {}
    /\ timestamps = <<>>
    /\ values = <<>>
    /\ pc = "unused"
    /\ args = [symbol |-> None, expiration_filter |-> None,
               sample_date |-> None]
    /\ csv_files = <<>>
    /\ idx = 1
    /\ outcome = "none"
    /\ warnings = <<>>
    /\ reads = <<>>
    /\ globbed = FALSE
    /\ listedInOrder = TRUE
    /\ sources = <<>>
    /\ startLen = 0
    /\ calls = 0
    /\ lastOk = <<>>

InitMetrics == MetricInit /\ MetricLoader /\ GexUnused /\ BsUnused

NextMetrics == ComputeMetric

SpecMetrics == InitMetrics /\ [][NextMetrics]_vars


----------------------------------------------------------------------------
(* bs_gamma (utils/black_scholes.py).  A float is sign * 10^exp, kept as   *)
(* [sign, exp] with sign 0 for zero, so that the orders of magnitude of    *)
(* the divisors are computed; the mantissa is not modelled.                *)
(***************************************************************************)

Num(sign, exp) == [sign |-> sign, exp |-> exp]

\* Line 45: eps = 1e-12
eps == Num(1, -12)

\* a < b on floats
NumLess(a, b) ==
    IF a.sign # b.sign THEN a.sign < b.sign
    ELSE IF a.sign = 1 THEN a.exp < b.exp
    ELSE IF a.sign = -1 THEN a.exp > b.exp
    ELSE FALSE

\* The first argument as it is.
FirstArgument(a, b) == a

\* np.maximum(a, b)
Maximum(a, b) == IF NumLess(a, b) THEN b ELSE a

\* Whether 10^e is a non-zero finite double.
InDoubleRange(e) == e >= -323 /\ e <= 308

\* Lines 51-52 on the floats s, k, t, sigma (r = q = 0.0).  The result is
\* "finite" when s / k is a positive finite number, so that np.log is
\* finite, and the divisors sigma * sqrt(t) and s * sigma * sqrt(t) are
\* non-zero finite numbers; norm_pdf lies in [0, 0.4], so the quotient is
\* then at most 0.4 / (s * sigma * sqrt(t)).  Otherwise numpy yields inf or
\* nan with a RuntimeWarning: "nonfinite".  numpy floats do not raise.
BsFormula(s, k, t, sigma) ==
    LET ratioOk == s.sign = 1 /\ k.sign = 1 /\ InDoubleRange(s.exp - k.exp)
        sqrt_t == Num(t.sign, t.exp \div 2)
        vol == sigma.exp + sqrt_t.exp
        volOk == sigma.sign = 1 /\ sqrt_t.sign = 1 /\ InDoubleRange(vol)
        den == s.exp + vol
        denOk == s.sign = 1 /\ volOk /\ InDoubleRange(den)
    IN  [kind |-> IF ratioOk /\ volOk /\ denOk /\ -den <= 308
                  THEN "finite" ELSE "nonfinite",
         on |-> <<s, k, t, sigma>>]

\* bs_gamma(s, k, t, sigma)
BsGamma(s, k, t, sigma) ==
    BsFormula(Maximum(s, eps), Maximum(k, eps), Maximum(t, eps),
              Maximum(sigma, eps))

\* -1, 0, 1e-20, 1e-12, 1e-2, 1 and 100
BsValues ==
    {Num(-1, 0), Num(0, 0), Num(1, -20), Num(1, -12), Num(1, -2), Num(1, 0),
     Num(1, 2)}

BsCall ==
    /\ bsPc = "new"
    /\ bsGamma' = BsGamma(bsArgs.s, bsArgs.k, bsArgs.t, bsArgs.sigma)
    /\ bsPc' = "returned"
    /\ UNCHANGED <<loaderVars, gexVars, metricVars, bsArgs>>

BsInit ==
    /\ bsArgs \in [s : BsValues, k : BsValues, t : BsValues, sigma : BsValues]
    /\ bsGamma = [kind |-> "unset", on |-> <<>>]
    /\ bsPc = "new"

InitBS == BsInit /\ LoaderUnused /\ GexUnused /\ MetricUnused

NextBS == BsCall

SpecBS == InitBS /\ [][NextBS]_vars


----------------------------------------------------------------------------
(* Properties of load_and_calculate, checked under Spec                    *)
(***************************************************************************)

\* The files behind the entries the call in progress (or the last call)
\* has appended, and their timestamps.
CallEntries == SubSeq(sources, startLen + 1, Len(sources))
CallTimestamps == SubSeq(timestamps, startLen + 1, Len(timestamps))

\* The files the loop has been through.
Attempted == {csv_files[i] : i \in 1..(idx - 1)}

InSeq(x, seq) == \E i \in 1..Len(seq) : seq[i] = x

Count(seq, x) == Cardinality({i \in 1..Len(seq) : seq[i] = x})

\* The underscore-delimited segments of each file's stem.
SegmentsOf == [f \in AllFiles |-> Split(Stem(f), "_")]

\* A file whose processing raises: its timestamp does not parse, or
\* pd.read_csv raises on it, or the metric raises on its snapshot.
Fails ==
    [kind \in LoaderKinds |-> [cfg \in Configs |-> [f \in AllFiles |->
        /\ Len(SegmentsOf[f]) >= 4
        /\ \/ ~ParseTimestamp(SegmentsOf[f][3], SegmentsOf[f][4]).ok
           \/ ~ContentOf(f).readable
           \/ Metric(kind, ContentOf(f), cfg).raised]]]

\* C1: in both loaders every matched file is attempted; a file whose
\* timestamp parsing, CSV read or metric raises gets a warning naming it and
\* no entry, and every other attempted file with at least 4 segments,
\* before or after it in the sorted list, is recorded exactly once.
C1_ErrorsAreSkipped ==
    (pc \in {"loop", "check", "done"} /\ globbed) =>
        /\ pc \in {"check", "done"} => idx = Len(csv_files) + 1
        /\ \A f \in Attempted :
              IF Fails[loader][config][f]
              THEN InSeq(f, warnings) /\ ~InSeq(f, CallEntries)
              ELSE /\ ~InSeq(f, warnings)
                   /\ Len(SegmentsOf[f]) >= 4 => Count(CallEntries, f) = 1
        /\ \A i \in 1..Len(warnings) : warnings[i] \in Attempted
        /\ \A i \in 1..Len(CallEntries) : CallEntries[i] \in Attempted

\* Three matched files of which the middle one has a corrupt gamma column:
\* one warning, and a series of length 2 that holds the file after it.
C1_Witness ==
    /\ pc = "done"
    /\ outcome = "returned"
    /\ csv_files = <<F0900, F0915, F0930>>
    /\ warnings = <<F0915>>
    /\ sources = <<F0900, F0930>>
    /\ Len(timestamps) = 2

\* C2: a call that matched at least one file and recorded no entry for any
\* of them ends with NoValidData, after every matched file was attempted,
\* whatever the loader object held before the call.
C2_NoValidDataWhenNoEntry ==
    (pc = "done" /\ globbed /\ csv_files # <<>> /\ CallEntries = <<>>) =>
        outcome = "NoValidData" /\ idx = Len(csv_files) + 1

\* C3: after any sequence of calls the series holds exactly one entry for
\* each usable file of the most recent call that returned, and nothing else.
C3_SeriesOfLatestCall ==
    pc = "done" =>
        /\ Len(timestamps) = Len(sources)
        /\ Len(values) = Len(sources)
        /\ \A f \in AllFiles : Count(sources, f) = Count(lastOk, f)

\* datetime < datetime
TsLess(a, b) ==
    \E i \in 1..6 : (\A j \in 1..(i - 1) : a[j] = b[j]) /\ a[i] < b[i]

\* A file name whose date and time fields are zero-padded to full width.
ZeroPadded ==
    [f \in AllFiles |->
        /\ Len(SegmentsOf[f]) >= 4
        /\ Len(SegmentsOf[f][3]) = 10
        /\ Len(SegmentsOf[f][4]) = 8]

\* C4: the entries a call records are in the lexicographic order of the
\* matched file names, whatever order the directory listing returned them
\* in; when those names are zero-padded their timestamps are in
\* non-decreasing chronological order.
C4_EntriesInFilenameOrder ==
    /\ \A i, j \in 1..Len(CallEntries) :
          i < j => StrLess(CallEntries[i], CallEntries[j])
    /\ (\A i \in 1..Len(CallEntries) : ZeroPadded[CallEntries[i]]) =>
          \A i, j \in 1..Len(CallTimestamps) :
              i < j => ~TsLess(CallTimestamps[j], CallTimestamps[i])

\* Files 09-00-00, 09-05-00 and 09-30-00 listed out of name order and
\* recorded in order.
C4_Witness ==
    /\ pc = "done"
    /\ ~listedInOrder
    /\ sources = <<F0900, F0905, F0930>>
    /\ timestamps = <<<<2025, 1, 2, 9, 0, 0>>, <<2025, 1, 2, 9, 5, 0>>,
                      <<2025, 1, 2, 9, 30, 0>>>>

\* C5: a call with symbol None or expiration_filter None ends with
\* InvalidArgument, for any other arguments and any directory content,
\* before the directory is listed or any file is read.
C5_InvalidArgument ==
    (calls > 0 /\ (args.symbol = None \/ args.expiration_filter = None)) =>
        /\ pc = "done"
        /\ outcome = "InvalidArgument"
        /\ ~globbed
        /\ reads = <<>>

\* A call with a symbol and no expiration filter, on a loader that already
\* holds data, in a directory with files of that symbol.
C5_Witness ==
    /\ outcome = "InvalidArgument"
    /\ args.symbol = SymS
    /\ args.expiration_filter = None
    /\ args.sample_date = Date0102
    /\ F0900 \in dir
    /\ timestamps # <<>>

\* The discovery pattern read on the segments of a file name:
\* {symbol}_exp{expirationFilter}_{sampleDate}_*.csv when sample_date is
\* given, {symbol}_exp{expirationFilter}_*.csv otherwise.
MatchesDiscovery(f, a) ==
    /\ Len(SegmentsOf[f]) >= 3
    /\ SegmentsOf[f][1] = a.symbol
    /\ SegmentsOf[f][2] = <<"e", "x", "p">> \o a.expiration_filter
    /\ a.sample_date # None =>
          Len(SegmentsOf[f]) >= 4 /\ SegmentsOf[f][3] = a.sample_date
    /\ EndsWith(f, Csv)

\* C6: with symbol and expiration_filter given, the call ends with NotFound
\* exactly when no file of the directory matches the discovery pattern, and
\* then no file is read.
C6_NotFound ==
    (calls > 0 /\ args.symbol # None /\ args.expiration_filter # None) =>
        /\ outcome = "NotFound" <=> \A f \in dir : ~MatchesDiscovery(f, args)
        /\ outcome = "NotFound" => pc = "done" /\ reads = <<>>

\* Files of the symbol and expiration, none of the sample date asked for.
C6_Witness ==
    /\ outcome = "NotFound"
    /\ args.symbol = SymS
    /\ args.sample_date = Date0102
    /\ dir = {FNextDay, FShort}
    /\ reads = <<>>

\* The metric values the call in progress (or the last call) has appended.
CallValues == SubSeq(values, startLen + 1, Len(values))

\* The files of the directory that match the pattern of the call.
MatchedFiles ==
    dir \cap Matching[args.symbol][args.expiration_filter][args.sample_date]

\* The entry of a file computed from the file alone: the timestamp of its
\* name and the metric of its content under the loader's configuration.
EntryOf ==
    [kind \in LoaderKinds |-> [cfg \in Configs |-> [f \in AllFiles |->
        IF Len(SegmentsOf[f]) < 4 THEN [ts |-> <<>>, value |-> <<>>]
        ELSE [ts |-> ParseTimestamp(SegmentsOf[f][3], SegmentsOf[f][4]).ts,
              value |-> Metric(kind, ContentOf(f), cfg).value]]]]

\* C15: the entry recorded for a file is a function of the file's name and
\* content and of the configuration alone; the entries a call appends are
\* those obtained by computing each matched file on its own, whatever the
\* other files of the batch, the failures among them and the order in which
\* the directory listed them, and putting the results of the files that
\* yield one in file-name order.
C15_PerFileIndependence ==
    (pc = "done" /\ globbed) =>
        LET order ==
                SortedSet({f \in MatchedFiles :
                              /\ Len(SegmentsOf[f]) >= 4
                              /\ ~Fails[loader][config][f]})
        IN  /\ CallEntries = order
            /\ Len(CallTimestamps) = Len(order)
            /\ Len(CallValues) = Len(order)
            /\ \A i \in 1..Len(order) :
                  /\ CallTimestamps[i] = EntryOf[loader][config][order[i]].ts
                  /\ CallValues[i] = EntryOf[loader][config][order[i]].value

\* A batch listed out of name order whose first file fails: the two files
\* after it are recorded with their own entries.
C15_Witness ==
    /\ pc = "done"
    /\ calls = 1
    /\ ~listedInOrder
    /\ csv_files = <<F0915, F0930, F910>>
    /\ warnings = <<F0915>>
    /\ sources = <<F0930, F910>>
    /\ timestamps = <<<<2025, 1, 2, 9, 30, 0>>, <<2025, 1, 2, 9, 10, 0>>>>
    /\ values = <<EntryOf[loader][config][F0930].value,
                  EntryOf[loader][config][F910].value>>

\* C16: a matched file whose stem has fewer than 4 underscore-delimited
\* segments adds no entry, gets no warning and is not read, and the loop
\* goes on: the files after it are attempted, and those that yield an
\* entry are recorded.
C16_ShortNameSkippedSilently ==
    (pc \in {"loop", "check", "done"} /\ globbed) =>
        \A i \in 1..(idx - 1) :
            Len(SegmentsOf[csv_files[i]]) < 4 =>
                /\ ~InSeq(csv_files[i], warnings)
                /\ ~InSeq(csv_files[i], reads)
                /\ ~InSeq(csv_files[i], CallEntries)
                /\ pc \in {"check", "done"} =>
                      /\ idx = Len(csv_files) + 1
                      /\ outcome \in {"running", "returned", "NoValidData"}
                /\ \A j \in (i + 1)..(idx - 1) :
                      IsUsable(csv_files[j]) =>
                          /\ InSeq(csv_files[j], CallEntries)
                          /\ InSeq(csv_files[j], reads)

\* S_exp1_0-notes.csv sorts first and is passed over; the file after it is
\* read and recorded.
C16_Witness ==
    /\ pc = "done"
    /\ outcome = "returned"
    /\ csv_files = <<FShort, F0900>>
    /\ warnings = <<>>
    /\ reads = <<F0900>>
    /\ sources = <<F0900>>
    /\ Len(timestamps) = 1

\* A file whose name carries a valid timestamp and whose snapshot has no
\* rows or no underlying_price column.
IsDegenerate ==
    [f \in AllFiles |->
        /\ Len(SegmentsOf[f]) >= 4
        /\ ParseTimestamp(SegmentsOf[f][3], SegmentsOf[f][4]).ok
        /\ ContentOf(f).readable
        /\ \/ ContentOf(f).rows = <<>>
           \/ "underlying_price" \notin ContentOf(f).columns]

\* The metric of each file's snapshot as the method returns it.
MetricOf ==
    [kind \in LoaderKinds |-> [cfg \in Configs |-> [f \in AllFiles |->
        Metric(kind, ContentOf(f), cfg)]]]

\* C17: for a matched file with a valid filename timestamp whose snapshot
\* has no rows or no underlying_price column, the metric returns 0.0 and
\* the loader records the entry (timestamp, 0.0), with no warning.
C17_DegenerateSnapshotIsZero ==
    (pc \in {"loop", "check", "done"} /\ globbed) =>
        \A f \in Attempted :
            IsDegenerate[f] =>
                /\ MetricOf[loader][config][f] = Returned(0, 1)
                /\ ~InSeq(f, warnings)
                /\ \E i \in (startLen + 1)..Len(sources) :
                      /\ sources[i] = f
                      /\ timestamps[i] = EntryOf[loader][config][f].ts
                      /\ values[i] = <<0, 1>>

\* A header-only snapshot and a snapshot without underlying_price: two
\* entries of value 0.0 and no warning.
C17_Witness ==
    /\ pc = "done"
    /\ outcome = "returned"
    /\ csv_files = <<FNextDay, FNextDay2>>
    /\ warnings = <<>>
    /\ timestamps = <<<<2025, 1, 3, 9, 0, 0>>, <<2025, 1, 3, 9, 5, 0>>>>
    /\ values = <<<<0, 1>>, <<0, 1>>>>

\* C18: in every state of a loader object, after any sequence of calls and
\* whatever files fail, timestamps and the metric values have the same
\* length, and the i-th value is the metric of the file whose name gave the
\* i-th timestamp.
C18_SeriesAligned ==
    /\ Len(timestamps) = Len(values)
    /\ Len(timestamps) = Len(sources)
    /\ \A i \in 1..Len(sources) :
          /\ Len(SegmentsOf[sources[i]]) >= 4
          /\ ~Fails[loader][config][sources[i]]
          /\ i <= Len(timestamps) =>
                timestamps[i] = EntryOf[loader][config][sources[i]].ts
          /\ i <= Len(values) =>
                values[i] = EntryOf[loader][config][sources[i]].value

\* A second call in which the file between two good ones fails, on a
\* loader that holds the entries of the first call.
C18_Witness ==
    /\ pc = "done"
    /\ calls = 2
    /\ startLen = 2
    /\ csv_files = <<F0905, F0915, F0930>>
    /\ warnings = <<F0915>>
    /\ sources = <<F0905, F0930, F0905, F0930>>
    /\ Len(timestamps) = 4
    /\ Len(values) = 4

IsPrefix(a, b) == Len(a) <= Len(b) /\ SubSeq(b, 1, Len(a)) = a

\* C19: no step of load_and_calculate changes the loader's class and
\* configuration or the directory it reads, and no step removes or alters
\* an entry of the series; a call that ends with InvalidArgument, NotFound
\* or NoValidData has appended nothing, so that the series is as it was
\* before the call.
C19_FailedCallKeepsSeries ==
    [][/\ config' = config
       /\ loader' = loader
       /\ dir' = dir
       /\ IsPrefix(timestamps, timestamps')
       /\ IsPrefix(values, values')
       /\ (pc' = "done" /\ outcome' \in {"InvalidArgument", "NotFound",
                                         "NoValidData"}) =>
             /\ Len(timestamps') = startLen'
             /\ Len(values') = startLen'
             /\ calls' = calls + 1 =>
                   timestamps' = timestamps /\ values' = values]_vars

\* A call that ends with NotFound on a loader that holds the entries of an
\* earlier call.
C19_Witness ==
    /\ pc = "done"
    /\ calls = 2
    /\ outcome = "NotFound"
    /\ Len(timestamps) = 2
    /\ startLen = 2
    /\ config = DefaultConfig


----------------------------------------------------------------------------
(* Properties of GEX, checked under SpecGEX                                *)
(***************************************************************************)

NetGamma == [i \in 1..Len(gexData.rows) |-> gexData.rows[i].net_gamma]
Strikes == [i \in 1..Len(gexData.rows) |-> gexData.rows[i].strike]

\* Adjacent pairs of the net-exposure sequence whose signs differ.
Crossings ==
    {i \in 1..(Len(NetGamma) - 1) : Sign(NetGamma[i]) # Sign(NetGamma[i + 1])}

FirstCrossing == CHOOSE i \in Crossings : \A j \in Crossings : i <= j

RECURSIVE Gcd(_, _)
Gcd(a, b) == IF b = 0 THEN a ELSE Gcd(b, a % b)

\* Whether the fractions n1 / d1 and n2 / d2 are equal (d1, d2 # 0).
SameFraction(n1, d1, n2, d2) ==
    LET g1 == Gcd(Abs(n1), Abs(d1))
        g2 == Gcd(Abs(n2), Abs(d2))
        s1 == IF d1 < 0 THEN -1 ELSE 1
        s2 == IF d2 < 0 THEN -1 ELSE 1
    IN  /\ s1 * (n1 \div g1) = s2 * (n2 \div g2)
        /\ s1 * (d1 \div g1) = s2 * (d2 \div g2)

\* C7: find_zero_gamma_level returns None, without raising, for a sequence
\* whose values are all strictly positive or all strictly negative and for
\* a sequence of fewer than 2 points.
C7_NoneWithoutCrossing ==
    (/\ gexPc = "found"
     /\ \/ Len(NetGamma) < 2
        \/ \A i \in 1..Len(NetGamma) : NetGamma[i] > 0
        \/ \A i \in 1..Len(NetGamma) : NetGamma[i] < 0)
    => zeroGamma.kind = "None"

\* C8: when some adjacent pair of the strike-ascending sequence differs in
\* sign, find_zero_gamma_level returns
\* k_i + (0 - net_i) * (k_{i+1} - k_i) / (net_{i+1} - net_i) at the first
\* such pair (i, i+1), in either direction of the crossing.
C8_InterpolatesFirstCrossing ==
    (gexPc = "found" /\ Crossings # {}) =>
        LET i == FirstCrossing
            den == NetGamma[i + 1] - NetGamma[i]
            num == Strikes[i] * den
                     + (0 - NetGamma[i]) * (Strikes[i + 1] - Strikes[i])
        IN  /\ zeroGamma.kind = "value"
            /\ SameFraction(zeroGamma.num, zeroGamma.den, num, den)

\* gamma * open_interest * 100 * underlying_price summed over the rows of
\* the snapshot at strike k with contract type ct.
ExposureAt(k, ct) ==
    SumSeq([i \in 1..Len(gexDf) |->
               IF gexDf[i].strike = k /\ gexDf[i].contract_type = ct
               THEN gexDf[i].gamma * gexDf[i].open_interest * 100
                      * gexDf[i].underlying_price
               ELSE 0])

\* The distinct strikes of the snapshot within the range of the call.
StrikesInRange ==
    {k \in {gexDf[i].strike : i \in 1..Len(gexDf)} :
        /\ gexRange[1] = NoStrike \/ k >= gexRange[1][1]
        /\ gexRange[2] = NoStrike \/ k <= gexRange[2][1]}

\* C9: for every non-empty snapshot calculate_gex_by_strike returns, for
\* each strike, CALL and PUT as the sums of
\* gamma * open_interest * 100 * underlying_price over the strike's rows of
\* that type (0 where there is none, also when the snapshot has no row of
\* one type at all) and net_gamma = CALL - PUT.
C9_ExposureByStrike ==
    gexPc \in {"calculated", "found"} =>
        /\ gexData.raised = ""
        /\ \A k \in StrikesInRange :
              \E i \in 1..Len(gexData.rows) :
                  /\ gexData.rows[i].strike = k
                  /\ gexData.rows[i].CALL = ExposureAt(k, "CALL")
                  /\ gexData.rows[i].PUT = ExposureAt(k, "PUT")
                  /\ gexData.rows[i].net_gamma
                       = ExposureAt(k, "CALL") - ExposureAt(k, "PUT")

\* C10: the frame calculate_gex_by_strike returns has exactly one row per
\* distinct strike of the snapshot within the inclusive range
\* [min_strike, max_strike] (None does not restrict), in strictly ascending
\* strike order whatever the order of the snapshot's rows.
C10_OneRowPerStrikeAscending ==
    (gexPc \in {"calculated", "found"} /\ gexData.raised = "") =>
        /\ \A i, j \in 1..Len(Strikes) : i < j => Strikes[i] < Strikes[j]
        /\ {Strikes[i] : i \in 1..Len(Strikes)} = StrikesInRange

\* A snapshot with rows in descending strike order and a strike below the
\* range, whose result holds the two strikes at the bounds of the range.
C10_Witness ==
    /\ gexPc = "calculated"
    /\ gexData.raised = ""
    /\ gexRange = <<<<110>>, <<120>>>>
    /\ Len(gexDf) = 3
    /\ gexDf[1].strike = 120
    /\ gexDf[2].strike = 110
    /\ gexDf[3].strike = 100
    /\ Strikes = <<110, 120>>


----------------------------------------------------------------------------
(* Properties of the metric methods, checked under SpecMetrics             *)
(***************************************************************************)

\* The positions of the snapshot's rows whose strike lies within
\* strike_width of the first row's underlying_price, bounds included.
RowsInBand ==
    {i \in 1..Len(snapshot.rows) :
        /\ snapshot.rows[i].strike
             >= snapshot.rows[1].underlying_price - config.strike_width
        /\ snapshot.rows[i].strike
             <= snapshot.rows[1].underlying_price + config.strike_width}

\* C11: _compute_net_gex_near_spot returns the sum, over exactly the rows
\* with spot - strike_width <= strike <= spot + strike_width (spot the first
\* row's underlying_price), of apply_dealer_sign(row_gross_gex(row)); 0.0
\* when no row is in the band; and the negated value when dealer_short is
\* switched.
C11_NetGexNearSpot ==
    (metricPc = "computed" /\ loader = "NetGEX") =>
        LET rows == snapshot.rows
            expected ==
                SumSeq([i \in 1..Len(rows) |->
                    IF i \in RowsInBand
                    THEN ApplyDealerSign(
                             RowGrossGex(rows[i], rows[1].underlying_price,
                                         config.multiplier,
                                         config.gamma_scale),
                             config.dealer_short)
                    ELSE 0])
            switched ==
                ComputeNetGexNearSpot(snapshot,
                    [config EXCEPT !.dealer_short = ~config.dealer_short])
        IN  /\ ~metric.raised
            /\ IF RowsInBand = {} THEN metric.value = <<0, 1>>
               ELSE SameFraction(metric.value[1], metric.value[2],
                                 expected, 10000)
            /\ ~switched.raised
            /\ SameFraction(switched.value[1], switched.value[2],
                            -metric.value[1], metric.value[2])

\* Dealers short, strike_width 5, spot 100: the rows at strikes 95 and 105
\* are in the band, the row at 120 is not, and the result is
\* -(0.01 * 10 + 0.02 * 10) * 100^2 * 100 * 0.01 = -3000.
C11_Witness ==
    /\ metricPc = "computed"
    /\ loader = "NetGEX"
    /\ config.strike_width = 5
    /\ config.dealer_short
    /\ config.gamma_scale = 1
    /\ snapshot.rows = <<Row(95, "PUT", 1, 10, -15, 100),
                         Row(105, "CALL", 2, 10, 55, 100),
                         Row(120, "CALL", 1, 7, 10, 100)>>
    /\ metric.value = <<-30000000, 10000>>

\* The positions of the rows that pass the delta filter:
\* min_abs_delta <= |delta| <= max_abs_delta.
RowsInDeltaRange ==
    {i \in 1..Len(snapshot.rows) :
        /\ Abs(snapshot.rows[i].delta) >= config.min_abs_delta
        /\ Abs(snapshot.rows[i].delta) <= config.max_abs_delta}

\* -gamma * open_interest * spot^2 * 0.01 of row i, in units of 1/10000,
\* spot being the first row's underlying_price.
DgiContribution(i) ==
    -(snapshot.rows[i].gamma * snapshot.rows[i].open_interest
        * snapshot.rows[1].underlying_price
        * snapshot.rows[1].underlying_price)

\* The contributions of the filtered rows strictly above the spot.
SumAbove ==
    SumSeq([i \in 1..Len(snapshot.rows) |->
        IF /\ i \in RowsInDeltaRange
           /\ snapshot.rows[i].strike > snapshot.rows[1].underlying_price
        THEN DgiContribution(i) ELSE 0])

\* The contributions of the filtered rows strictly below the spot.
SumBelow ==
    SumSeq([i \in 1..Len(snapshot.rows) |->
        IF /\ i \in RowsInDeltaRange
           /\ snapshot.rows[i].strike < snapshot.rows[1].underlying_price
        THEN DgiContribution(i) ELSE 0])

\* C12: _calculate_dgi returns a value in [-1, 1] for every snapshot;
\* exactly 0.0 when no row has min_abs_delta <= |delta| <= max_abs_delta and
\* when denom = |sum_above| + |sum_below| is 0; otherwise
\* (sum_above - sum_below) / denom clamped to [-1, 1], each filtered row
\* contributing -gamma * open_interest * spot^2 * 0.01.
C12_DgiValue ==
    (metricPc = "computed" /\ loader = "DGI") =>
        LET denom == Abs(SumAbove) + Abs(SumBelow)
            ratio == SumAbove - SumBelow
        IN  /\ ~metric.raised
            /\ metric.value[2] > 0
            /\ metric.value[1] <= metric.value[2]
            /\ metric.value[1] >= -metric.value[2]
            /\ IF RowsInDeltaRange = {} \/ denom = 0
               THEN metric.value = <<0, 1>>
               ELSE IF ratio > denom
               THEN SameFraction(metric.value[1], metric.value[2], 1, 1)
               ELSE IF ratio < -denom
               THEN SameFraction(metric.value[1], metric.value[2], -1, 1)
               ELSE SameFraction(metric.value[1], metric.value[2],
                                 ratio, denom)

\* Default delta range, spot 100: the row with delta -0.15 (on the bound,
\* strike 95) and the row with delta 0.30 (strike 110) are kept, the row
\* with delta -0.60 is not; sum_above = -400, sum_below = -1000 and the
\* result is 600 / 1400.
C12_Witness ==
    /\ metricPc = "computed"
    /\ loader = "DGI"
    /\ config = DefaultConfig
    /\ snapshot.rows = <<Row(95, "PUT", 1, 10, -15, 100),
                         Row(110, "CALL", 1, 4, 30, 100),
                         Row(90, "PUT", 2, 3, -60, 100)>>
    /\ metric.value = <<60000, 140000>>

\* The rows without the row at position i.
WithoutRow(rows, i) ==
    SubSeq(rows, 1, i - 1) \o SubSeq(rows, i + 1, Len(rows))

\* The rows with row r put after position p (p = 0: in front).
WithRow(rows, r, p) ==
    SubSeq(rows, 1, p) \o <<r>> \o SubSeq(rows, p + 1, Len(rows))

\* C13: in _calculate_dgi a row whose strike equals the spot contributes to
\* neither sum: removing such a row from the snapshot, or adding one to it,
\* leaves the result as it is (the spot, the first row's underlying_price,
\* staying the same), and a snapshot whose delta-filtered rows all have
\* strike = spot yields 0.0.
C13_RowsAtSpotExcluded ==
    (metricPc = "computed" /\ loader = "DGI" /\ snapshot.rows # <<>>) =>
        LET rows == snapshot.rows
            spot == rows[1].underlying_price
            SameSpot(rs) == rs # <<>> => rs[1].underlying_price = spot
        IN  /\ \A i \in 1..Len(rows) :
                  (rows[i].strike = spot /\ SameSpot(WithoutRow(rows, i))) =>
                      CalculateDgi(Frame(WithoutRow(rows, i)), config)
                        = metric
            /\ \A r \in MetricRows, p \in 0..Len(rows) :
                  (r.strike = spot /\ SameSpot(WithRow(rows, r, p))) =>
                      CalculateDgi(Frame(WithRow(rows, r, p)), config)
                        = metric
            /\ (\A i \in RowsInDeltaRange : rows[i].strike = spot) =>
                  metric.value = <<0, 1>>

\* A snapshot with a filtered row at the spot (strike 100, delta 0.50) next
\* to a row below and a row above: the result is that of the two other
\* rows, 600 / 1400.
C13_Witness ==
    /\ metricPc = "computed"
    /\ loader = "DGI"
    /\ config = DefaultConfig
    /\ snapshot.rows = <<Row(100, "CALL", 3, 5, 50, 100),
                         Row(95, "PUT", 1, 10, -15, 100),
                         Row(110, "CALL", 1, 4, 30, 100)>>
    /\ metric.value = <<60000, 140000>>


----------------------------------------------------------------------------
(* Properties of bs_gamma, checked under SpecBS                            *)
(***************************************************************************)

\* max(value, 1e-12)
Floored(x) == IF x.sign < 1 \/ x.exp < -12 THEN Num(1, -12) ELSE x

\* C14: bs_gamma returns a finite number, without raising, for every s, k,
\* t and sigma, those at or below 1e-12, zero and negative included: the
\* result is that of the formula on max(s, 1e-12), max(k, 1e-12),
\* max(t, 1e-12) and max(sigma, 1e-12).
C14_BsGammaFloored ==
    bsPc = "returned" =>
        /\ bsGamma.kind = "finite"
        /\ bsGamma = BsFormula(Floored(bsArgs.s), Floored(bsArgs.k),
                               Floored(bsArgs.t), Floored(bsArgs.sigma))
        /\ bsGamma
             = BsGamma(Floored(bsArgs.s), Floored(bsArgs.k),
                       Floored(bsArgs.t), Floored(bsArgs.sigma))

\* t = 0 and sigma = -1 with s = k = 100: the formula is evaluated at
\* t = sigma = 1e-12.
C14_Witness ==
    /\ bsPc = "returned"
    /\ bsArgs = [s |-> Num(1, 2), k |-> Num(1, 2), t |-> Num(0, 0),
                 sigma |-> Num(-1, 0)]
    /\ bsGamma = [kind |-> "finite",
                  on |-> <<Num(1, 2), Num(1, 2), Num(1, -12), Num(1, -12)>>]

=============================================================================
